---- MODULE Spec2Model ----
(***************************************************************************)
(* A model of go-app-stager (main, analyze, bundle, copyTree, copyFile).   *)
(* Paths and import paths are sequences of path segments, so that          *)
(* strings.SplitN(p, "/", 2)[0] is p[1] and filepath.Join is a cleaned     *)
(* concatenation.                                                          *)
(***************************************************************************)
EXTENDS Integers, Sequences, FiniteSets, TLC

VARIABLES
    pc,               \* position of main
    src,              \* filepath.Dir(configPath): the application directory
    rootName,         \* package name found in the application directory
    edges,            \* import statements on disk: <<package dir, import path>>
    vendored,         \* whether src/vendor/c exists on disk
    hasLoop,          \* whether src/loop, a symbolic link to src, exists on disk
    stagedDir,        \* STAGED_DIR, the second argument
    tags,             \* build tags chosen by main
    enforceMain,
    vendorDir,
    skippedPackages,  \* the package-level map, mutated by main for flex
    pass,             \* index into minorVersions of the current pass
    imports,          \* analyze: work queue of importFrom
    visited,          \* analyze: set of importFrom
    packages,         \* analyze: output list
    visitedPackages,  \* analyze: set of SrcRoot/ImportPath names
    deps,             \* what analyze returned to main in this pass
    importCalls,      \* the ctx.Import calls of the current analyze run
    returned,         \* every package analyze has returned, over all passes
    dstFS,            \* entries of the staged directory tree
    bundled,          \* entries written by bundle (as opposed to the root copy)
    ops,              \* the calls main has made, in order
    stdout,
    stderr,
    err,              \* which failure ended the run
    exitCode,
    cf,               \* a call of copyFile followed statement by statement
    cfIn,             \* the arguments of that call, and where the system fails
    c,                \* staticHandler.c, as its two words [ptr, len]
    empty,            \* whether the template of the handler renders to no bytes
    requests,         \* the ServeHTTP calls on the handler: position, b, response
    renders           \* the calls of render that have returned bytes

vars == <<pc, src, rootName, edges, vendored, hasLoop, stagedDir, tags, enforceMain, vendorDir,
          skippedPackages, pass, imports, visited, packages, visitedPackages,
          deps, importCalls, returned, dstFS, bundled, ops, stdout, stderr,
          err, exitCode, cf, cfIn, c, empty, requests, renders>>

world == <<src, rootName, edges, vendored, hasLoop, stagedDir>>
mainVars == <<tags, enforceMain, vendorDir, skippedPackages>>
analyzeVars == <<imports, visited, packages, visitedPackages, importCalls>>
runVars == <<pc, pass, deps, returned, dstFS, bundled, ops, stdout, stderr, err, exitCode>>
copyFileVars == <<cf, cfIn>>
handlerVars == <<c, empty, requests, renders>>
others == <<copyFileVars, handlerVars>>

(***************************************************************************)
(* Bounds                                                                  *)
(***************************************************************************)
MaxEdges == 4        \* import statements present on disk, over all packages
MaxSymlinks == 2     \* symbolic links the operating system follows in one resolution
MaxPathLen == 8      \* segments of the longest path the operating system accepts
NumRequests == 3     \* requests served by one staticHandler
MaxDepth == 7        \* nested calls of copyTree the model follows

(***************************************************************************)
(* Sequence helpers                                                        *)
(***************************************************************************)
Range(s) == {s[i] : i \in 1..Len(s)}

IsPrefix(p, q) == Len(p) <= Len(q) /\ SubSeq(q, 1, Len(p)) = p

Front(s) == SubSeq(s, 1, Len(s) - 1)

NoPath == <<>>

(***************************************************************************)
(* filepath.Join: concatenate, then Clean (the "." segments disappear)     *)
(***************************************************************************)
Clean(p) == SelectSeq(p, LAMBDA seg : seg # ".")

Join(a, b) == Clean(a \o b)

(***************************************************************************)
(* The packages on disk                                                    *)
(***************************************************************************)
GOPATH == <<"gp">>
SrcRootDir == GOPATH \o <<"src">>

PathA == <<"a">>
PathAE == <<"appengine", "datastore">>
PathB == <<"b">>
PathC == <<"c">>
PathM == <<"missing">>
PathNH == <<"net", "http">>

\* go/build reports Imports sorted; this is the string order of the paths.
PathOrder == <<PathA, PathAE, PathB, PathC, PathM, PathNH>>

DirA == SrcRootDir \o PathA
DirB == SrcRootDir \o PathB
DirC == SrcRootDir \o PathC
DirAE == SrcRootDir \o PathAE
VendorC(app) == app \o <<"vendor">> \o PathC

AppDirs == {SrcRootDir \o <<"app">>, SrcRootDir \o <<"go", "app">>}

CandEdges(app) ==
    {<<app, PathA>>, <<app, PathB>>, <<app, PathC>>, <<app, PathAE>>, <<app, PathM>>,
     <<DirA, PathB>>, <<DirA, PathC>>,
     <<DirB, PathA>>, <<DirB, PathC>>,
     <<DirC, PathM>>, <<DirC, PathNH>>,
     <<VendorC(app), PathA>>}

GoPkgDirs == {DirA, DirAE, DirB, DirC}

\* the directories that hold a Go package
IsPkgDir(dir) == dir \in GoPkgDirs \/ (vendored /\ dir = VendorC(src))

(***************************************************************************)
(* Program constants                                                       *)
(***************************************************************************)
SkipNames ==
    {"appengine", "appengine_internal", "C", "unsafe",
     "archive", "bufio", "builtin", "bytes", "compress", "container", "context",
     "crypto", "database", "debug", "encoding", "errors", "expvar", "flag", "fmt",
     "go", "hash", "html", "image", "index", "io", "log", "math", "mime", "net",
     "os", "path", "reflect", "regexp", "runtime", "sort", "strconv", "strings",
     "sync", "syscall", "testing", "text", "time", "unicode"}

InitSkippedPackages == [n \in SkipNames |-> TRUE]

skipFiles == {".git", ".gitconfig", ".hg", ".travis.yml"}

minorVersions == <<6, 7, 8>>

\* the values of the two keys of SERVICE_YAML that main reads
Configs == [VM : BOOLEAN, Env : {"", "flex", "flexible", "2", "standard"}]

isFlex(conf) ==
    conf.VM \/ conf.Env = "flex" \/ conf.Env = "flexible" \/ conf.Env = "2"

(***************************************************************************)
(* buildContext, releaseTags                                               *)
(***************************************************************************)
releaseTags(minorVersion) == [i \in 1..minorVersion |-> <<"go1", i>>]

buildContext(buildTags, minorVersion) ==
    [GOARCH |-> "amd64", GOOS |-> "linux", GOROOT |-> NoPath, GOPATH |-> GOPATH,
     BuildTags |-> buildTags, ReleaseTags |-> releaseTags(minorVersion)]

buildCtx == buildContext(tags, minorVersions[pass])

(***************************************************************************)
(* go/build as analyze uses it: ImportDir and Import                       *)
(***************************************************************************)
\* The file of package c that imports "missing" carries the constraint go1.8.
Active(dir, path, ctx) ==
    (dir = DirC /\ path = PathM) => <<"go1", 8>> \in Range(ctx.ReleaseTags)

ImportsOf(dir, ctx) ==
    SelectSeq(PathOrder, LAMBDA p : <<dir, p>> \in edges /\ Active(dir, p, ctx))

ImportDir(ctx, abs) == [Name |-> rootName, Dir |-> abs, Imports |-> ImportsOf(abs, ctx)]

IsCommand(pkg) == pkg.Name = "main"

\* searchVendor: walk from srcDir up to GOPATH/src looking for vendor/<path>.
RECURSIVE searchVendor(_, _)
searchVendor(sub, path) ==
    LET dir == GOPATH \o sub \o <<"vendor">> \o path IN
    IF IsPkgDir(dir) THEN Tail(sub) \o <<"vendor">> \o path
    ELSE IF Len(sub) <= 1 THEN NoPath
    ELSE searchVendor(Front(sub), path)

ImportPathFor(path, srcDir) ==
    LET v == IF IsPrefix(SrcRootDir, srcDir)
             THEN searchVendor(SubSeq(srcDir, Len(GOPATH) + 1, Len(srcDir)), path)
             ELSE NoPath
    IN  IF v # NoPath THEN v ELSE path

Import(ctx, path, srcDir) ==
    LET ip == ImportPathFor(path, srcDir)
        dir == SrcRootDir \o ip
    IN  IF IsPkgDir(dir)
        THEN [ok |-> TRUE,
              pkg |-> [ImportPath |-> ip, SrcRoot |-> SrcRootDir, Dir |-> dir,
                       Imports |-> ImportsOf(dir, ctx)]]
        ELSE [ok |-> FALSE, pkg |-> [ImportPath |-> path, SrcRoot |-> NoPath,
                                     Dir |-> NoPath, Imports |-> <<>>]]

(***************************************************************************)
(* analyze, one operator per statement of the loop body                    *)
(***************************************************************************)
importFrom(path, fromDir) == [path |-> path, fromDir |-> fromDir]

seed(pkg, abs) == [k \in 1..Len(pkg.Imports) |-> importFrom(pkg.Imports[k], abs)]

\* faulty variant: the package main check is lost
mustBeMainNot(enforce, pkg) == FALSE

mustBeMain(enforce, pkg) == enforce /\ ~IsCommand(pkg)

\* faulty variant: the head of the queue is read and left in place
shiftNot(q) == q

shift(q) == Tail(q)

firstPart(path) == IF path = <<>> THEN "" ELSE path[1]

\* faulty variant: nothing is skipped
isSkippedNot(m, path) == FALSE

\* faulty variant: a name is skipped when the map has it, whatever it maps to
isSkippedKey(m, path) == firstPart(path) \in DOMAIN m

isSkipped(m, path) ==
    LET k == firstPart(path) IN IF k \in DOMAIN m THEN m[k] ELSE FALSE

\* faulty variant: the pair is not recorded
markVisitedNot(v, i) == v

markVisited(v, i) == v \cup {i}

pkgName(pkg) == Join(pkg.SrcRoot, pkg.ImportPath)

\* faulty variant: the package is appended whether or not its directory was seen
appendPackageAlways(pkgs, seen, pkg) == Append(pkgs, pkg)

appendPackage(pkgs, seen, pkg) ==
    IF pkgName(pkg) \in seen THEN pkgs ELSE Append(pkgs, pkg)

\* faulty variant: the origin directory of the new pairs is the application directory
enqueueAtRoot(q, pkg) ==
    q \o [k \in 1..Len(pkg.Imports) |-> importFrom(pkg.Imports[k], src)]

\* faulty variant: the new pairs are put at the head of the queue
enqueueFront(q, pkg) ==
    [k \in 1..Len(pkg.Imports) |-> importFrom(pkg.Imports[k], pkg.Dir)] \o q

enqueue(q, pkg) ==
    q \o [k \in 1..Len(pkg.Imports) |-> importFrom(pkg.Imports[k], pkg.Dir)]

Nil == [nil |-> TRUE, list |-> <<>>]

List(l) == [nil |-> FALSE, list |-> l]

(***************************************************************************)
(* The source tree on disk, as os.Lstat, os.Stat and ioutil.ReadDir see it *)
(***************************************************************************)
\* inside the application directory, relative to it
AppDirsRel == {<<>>, <<".git">>, <<"static">>, <<"vendor">>, <<"vendor", "c">>}

AppFilesRel ==
    {<<"app.yaml">>, <<"main.go">>, <<".git", "HEAD">>, <<"static", "index.html">>,
     <<"static", ".gitconfig">>, <<"vendor", "c", "c.go">>}

\* symbolic links of the application directory: <<link, target>>, relative;
\* loop points at the application directory itself, an ancestor of the link
AppLinksRel == {<<<<"assets">>, <<"static">>>>, <<<<"loop">>, <<>>>>}

AppLinkPathsRel == {l[1] : l \in AppLinksRel}

AppEntriesRel == AppDirsRel \cup AppFilesRel \cup AppLinkPathsRel

\* the package directories under GOPATH/src
PkgTreeDirs == {DirA, DirA \o <<"internal">>, DirB, DirC, DirAE}

PkgTreeFiles ==
    {DirA \o <<"a.go">>, DirA \o <<"internal", "i.go">>,
     DirB \o <<".travis.yml">>, DirB \o <<"b.go">>,
     DirC \o <<"c.go">>, DirAE \o <<"datastore.go">>}

InApp(p) == IsPrefix(src, p)

Rel(p) == SubSeq(p, Len(src) + 1, Len(p))

Present(rel) ==
    /\ (rel # <<>> /\ rel[1] = "vendor") => vendored
    /\ rel = <<"loop">> => hasLoop

\* no package directory under GOPATH/src lies inside the application directory
IsSrcDir(p) ==
    IF InApp(p) THEN Rel(p) \in AppDirsRel /\ Present(Rel(p)) ELSE p \in PkgTreeDirs

IsSrcFile(p) ==
    IF InApp(p) THEN Rel(p) \in AppFilesRel /\ Present(Rel(p)) ELSE p \in PkgTreeFiles

IsSrcLink(p) == InApp(p) /\ Rel(p) \in AppLinkPathsRel /\ Present(Rel(p))

IsSrcEntry(p) ==
    IF InApp(p) THEN Rel(p) \in AppEntriesRel /\ Present(Rel(p))
    ELSE p \in PkgTreeDirs \cup PkgTreeFiles

linkTarget(p) == src \o (CHOOSE l \in AppLinksRel : l[1] = Rel(p))[2]

\* path resolution: follow the symbolic links on p, counting them
RECURSIVE Follow(_, _)
Follow(p, n) ==
    LET hit == IF InApp(p)
               THEN {k \in (Len(src) + 1)..Len(p) : IsSrcLink(SubSeq(p, 1, k))}
               ELSE {}
    IN
    IF hit = {} THEN [path |-> p, links |-> n]
    ELSE LET k == CHOOSE x \in hit : \A y \in hit : x <= y
         IN  Follow(linkTarget(SubSeq(p, 1, k)) \o SubSeq(p, k + 1, Len(p)), n + 1)

\* the path with the symbolic links on it followed
Real(p) == Follow(p, 0).path

\* ELOOP: one path resolution follows at most MaxSymlinks links
tooManyLinks(n) == n > MaxSymlinks

\* faulty variant: the operating system accepts a path of any length
pathTooLongNot(p) == FALSE

\* ENAMETOOLONG: a path handed to the operating system has at most MaxPathLen segments
pathTooLong(p) == Len(p) > MaxPathLen

\* the basenames of the directories the copy reads, in the byte order ReadDir
\* sorts them in
NameOrder ==
    <<".git", ".gitconfig", ".travis.yml", "HEAD", "a.go", "app.yaml", "assets",
      "b.go", "c", "c.go", "datastore.go", "i.go", "index.html", "internal", "loop",
      "main.go", "out", "static", "vendor">>

(***************************************************************************)
(* The staged tree: a set of [path, kind, from].  When the output          *)
(* directory lies inside the application directory, what the run has       *)
(* written is part of what it reads.                                       *)
(***************************************************************************)
Prefixes(d) == {SubSeq(d, 1, k) : k \in 1..Len(d)}

KindIn(fs, p) ==
    LET m == {e \in fs : e.path = p} IN
    IF m = {} THEN "none" ELSE (CHOOSE e \in m : TRUE).kind

DirEntry(p) == [path |-> p, kind |-> "dir", from |-> NoPath]

Written(fs, p) == IF InApp(stagedDir) THEN KindIn(fs, p) ELSE "none"

IsDir(fs, p) == IsSrcDir(p) \/ Written(fs, p) = "dir"

IsFile(fs, p) == IsSrcFile(p) \/ Written(fs, p) = "file"

Exists(fs, p) == IsSrcEntry(p) \/ Written(fs, p) # "none"

ReadDir(fs, dir) ==
    LET rd == Real(dir) IN SelectSeq(NameOrder, LAMBDA n : Exists(fs, rd \o <<n>>))

LstatIsSymlink(p) == p # <<>> /\ IsSrcLink(Real(Front(p)) \o <<p[Len(p)]>>)

\* os.Stat: whether it succeeds, whether it finds a directory, the entry it finds
Stat(fs, p) ==
    LET f == Follow(p, 0)
        dir == IsDir(fs, f.path)
    IN  [ok |-> ~pathTooLong(p) /\ ~tooManyLinks(f.links) /\ (dir \/ IsFile(fs, f.path)),
         dir |-> dir, real |-> f.path]

StatIsDir(fs, p) == LET info == Stat(fs, p) IN info.ok /\ info.dir

StatOK(fs, p) == Stat(fs, p).ok

MkdirAllOK(fs, d) ==
    ~pathTooLong(d) /\ \A q \in Prefixes(d) : KindIn(fs, q) # "file" /\ ~IsSrcFile(q)

\* the directories on d that are not there yet are made
MkdirAll(fs, d) ==
    fs \cup {DirEntry(q) : q \in {x \in Prefixes(d) :
                 KindIn(fs, x) = "none" /\ ~IsPrefix(x, src) /\ ~IsSrcDir(x)}}

\* NoPath is the working directory
CreateOK(fs, p) ==
    /\ ~pathTooLong(p)
    /\ Front(p) = NoPath \/ KindIn(fs, Front(p)) = "dir"
    /\ KindIn(fs, p) # "dir"

Create(fs, p, from) ==
    {e \in fs : e.path # p} \cup {[path |-> p, kind |-> "file", from |-> from]}

(***************************************************************************)
(* copyFile, copyTree, bundle.  bad is the call at which the operating     *)
(* system fails for a reason of its own (NoFail: none); a result is        *)
(* [ok, fs, log, deep].                                                    *)
(***************************************************************************)
\* a slice is a pointer and a length; nil has the pointer 0
NilSlice == [ptr |-> 0, len |-> 0]

Fail(at, op) == [at |-> at, op |-> op]

NoFail == Fail(NoPath, "none")

Result(ok, fs, log) == [ok |-> ok, fs |-> fs, log |-> log, deep |-> FALSE]

\* the recursion of copyTree has gone deeper than MaxDepth
TooDeep(fs, log) == [ok |-> FALSE, fs |-> fs, log |-> log, deep |-> TRUE]

\* faulty variant: the file is created at dst as given, not under dstRoot
dstPathNot(dstRoot, dst) == dst

\* dst = filepath.Join(dstRoot, dst)
dstPath(dstRoot, dst) == Join(dstRoot, dst)

\* copyFile, statement by statement: open is the set of handles held
copyFileCall(fs, dstRoot, dst, s) ==
    [pc |-> "open", fs |-> fs, src |-> s, dst |-> dstPath(dstRoot, dst), open |-> {},
     opened |-> {}, err |-> "none"]

\* faulty variant: a failed io.Copy returns without closing d
closeAfterCopyErrorNot(open) == open

\* d.Close() on the failure path of io.Copy
closeAfterCopyError(open) == open \ {"d"}

copyFileStep(st, bad) ==
    CASE st.pc = "open" ->
           IF bad = Fail(st.src, "open") \/ ~StatOK(st.fs, st.src)
           THEN [st EXCEPT !.pc = "return", !.err = "open"]
           ELSE [st EXCEPT !.pc = "create", !.open = @ \cup {"s"}, !.opened = @ \cup {"s"}]
      [] st.pc = "create" ->
           IF bad = Fail(st.src, "create") \/ ~CreateOK(st.fs, st.dst)
           THEN [st EXCEPT !.pc = "deferred", !.err = "create"]
           ELSE [st EXCEPT !.pc = "copy", !.fs = Create(st.fs, st.dst, Real(st.src)),
                           !.open = @ \cup {"d"}, !.opened = @ \cup {"d"}]
      [] st.pc = "copy" ->
           IF bad = Fail(st.src, "copy") \/ StatIsDir(st.fs, st.src)
           THEN [st EXCEPT !.pc = "deferred", !.err = "copy",
                           !.open = closeAfterCopyError(@)]
           ELSE [st EXCEPT !.pc = "close"]
      [] st.pc = "close" ->
           [st EXCEPT !.pc = "deferred", !.open = @ \ {"d"},
                      !.err = IF bad = Fail(st.src, "close") THEN "close" ELSE "none"]
      [] st.pc = "deferred" ->
           [st EXCEPT !.pc = "return", !.open = @ \ {"s"}]
      [] OTHER -> st

RECURSIVE copyFileRun(_, _)
copyFileRun(st, bad) ==
    IF st.pc = "return" THEN st ELSE copyFileRun(copyFileStep(st, bad), bad)

\* copyFile as one call: whether it returned nil, and the tree it leaves
copyFile(fs, dstRoot, dstRel, s, bad) ==
    LET d == dstPath(dstRoot, dstRel)
        info == Stat(fs, s)
    IN
    IF bad = Fail(s, "open") \/ ~info.ok THEN [ok |-> FALSE, fs |-> fs]
    ELSE IF bad = Fail(s, "create") \/ ~CreateOK(fs, d) THEN [ok |-> FALSE, fs |-> fs]
    ELSE [ok |-> ~info.dir /\ bad \notin {Fail(s, "copy"), Fail(s, "close")},
          fs |-> Create(fs, d, info.real)]

\* faulty variant: only .git is left out
isSkipFileGitOnly(n) == n = ".git"

isSkipFile(n) == n \in skipFiles

\* faulty variant: a directory is always descended into
descendAlways(recursive) == TRUE

\* faulty variant: a directory is never descended into
descendNever(recursive) == FALSE

descend(recursive) == recursive

\* v is evaluated once, and F applied to its value: a Go statement that
\* assigns the result of a call before the result is used
Bind(v, F(_)) == CHOOSE y \in {F(x) : x \in {v}} : TRUE

RECURSIVE copyTree(_, _, _, _, _, _, _, _)
\* one iteration of the loop over the directory's entries, from the state st
\* the iterations before it left
copyEntry(st, dstRoot, dstDir, srcDir, recursive, bad, depth, n) ==
    LET s == Join(srcDir, <<n>>)
        d == Join(dstDir, <<n>>)
    IN
    IF isSkipFile(n) THEN Result(TRUE, st.fs, Append(st.log, <<"skipping", s>>))
    ELSE Bind(Stat(st.fs, s), LAMBDA info :
      IF LstatIsSymlink(s) /\ (bad = Fail(s, "stat") \/ ~info.ok)
      THEN Result(FALSE, st.fs, st.log)
      ELSE IF info.dir
      THEN IF ~descend(recursive) THEN st
           ELSE copyTree(st.fs, st.log, dstRoot, d, s, recursive, bad, depth + 1)
      ELSE Bind(copyFile(st.fs, dstRoot, d, s, bad), LAMBDA r :
             IF ~r.ok THEN Result(FALSE, r.fs, st.log)
             ELSE Result(TRUE, r.fs, Append(st.log, <<"copied", s, Join(dstRoot, d)>>))))

\* the loop over entries, after its first k iterations: an iteration that
\* fails returns from copyTree, so the later ones do not run
RECURSIVE copyEntries(_, _, _, _, _, _, _, _, _, _)
copyEntries(fs, log, dstRoot, dstDir, srcDir, recursive, bad, depth, entries, k) ==
    IF k = 0 THEN Result(TRUE, fs, log)
    ELSE Bind(copyEntries(fs, log, dstRoot, dstDir, srcDir, recursive, bad, depth,
                          entries, k - 1),
              LAMBDA st :
                IF ~st.ok THEN st
                ELSE copyEntry(st, dstRoot, dstDir, srcDir, recursive, bad, depth,
                               entries[k]))

\* depth counts the calls of copyTree that are in progress
copyTree(fs, log, dstRoot, dstDir, srcDir, recursive, bad, depth) ==
    LET d == Join(dstRoot, dstDir) IN
    IF depth > MaxDepth THEN TooDeep(fs, log)
    ELSE IF ~MkdirAllOK(fs, d) THEN Result(FALSE, fs, log)
    ELSE Bind(MkdirAll(fs, d), LAMBDA made :
           IF bad = Fail(srcDir, "readdir") \/ ~StatIsDir(made, srcDir)
           THEN Result(FALSE, made, log)
           ELSE Bind(ReadDir(made, srcDir), LAMBDA entries :
                  copyEntries(made, log, dstRoot, dstDir, srcDir, recursive, bad, depth,
                              entries, Len(entries))))

\* faulty variant: the vendor directory is used whatever main chose
bundleDstVendored(vdir, pkg) == Join(<<"_gopath", "src">>, pkg.ImportPath)

\* faulty variant: the package is staged under the last segment of its import path
bundleDstBase(vdir, pkg) == Join(vdir, <<pkg.ImportPath[Len(pkg.ImportPath)]>>)

bundleDst(vdir, pkg) == Join(vdir, pkg.ImportPath)

RECURSIVE bundle(_, _, _, _, _, _, _)
bundle(fs, log, dstRoot, vdir, pkgs, k, bad) ==
    IF k > Len(pkgs) THEN Result(TRUE, fs, log)
    ELSE LET pkg == pkgs[k] IN
         Bind(copyTree(fs, log, dstRoot, bundleDst(vdir, pkg),
                       Join(pkg.SrcRoot, pkg.ImportPath), FALSE, bad, 1),
              LAMBDA r :
                IF ~r.ok THEN r ELSE bundle(r.fs, r.log, dstRoot, vdir, pkgs, k + 1, bad))

\* where a run of bundle, or of the root copy, can meet an I/O error of the
\* operating system's own
BundleFailPoints(pkgs) ==
    {NoFail} \cup
    {f \in {Fail(DirA \o <<"a.go">>, "open"), Fail(DirC, "readdir")} :
       \E k \in 1..Len(pkgs) : IsPrefix(Join(pkgs[k].SrcRoot, pkgs[k].ImportPath), f.at)}

CopyFailPoints == {NoFail, Fail(src \o <<"static">>, "readdir")}

(***************************************************************************)
(* Initial states: the application on disk, before main runs.              *)
(* Only import statements of packages the application can reach are        *)
(* enumerated (the others are never read), and the vendor directory is     *)
(* present only in applications that import the vendored path.             *)
(***************************************************************************)
\* the directory an import statement leads to, NoPath when it resolves nowhere
EdgeTarget(e) ==
    LET dir == SrcRootDir \o ImportPathFor(e[2], e[1]) IN
    IF IsPkgDir(dir) THEN dir ELSE NoPath

\* dir is the application directory or is imported along at most n statements
RECURSIVE Linked(_, _)
Linked(dir, n) ==
    \/ dir = src
    \/ n > 0 /\ \E e \in edges : EdgeTarget(e) = dir /\ Linked(e[1], n - 1)

WorldOK ==
    /\ Cardinality(edges) <= MaxEdges
    /\ vendored => <<src, PathC>> \in edges
    /\ ~vendored => src = SrcRootDir \o <<"app">>
    /\ \A e \in edges : Linked(e[1], Cardinality(edges))

\* a link to an ancestor and an output directory inside the application are
\* looked at in the application that imports nothing
CopyWorldOK == (hasLoop \/ InApp(stagedDir)) => (edges = {} /\ rootName = "main")

InitWorld ==
    /\ src \in AppDirs
    /\ rootName \in {"main", "app"}
    /\ vendored \in BOOLEAN
    /\ edges \in SUBSET CandEdges(src)
    /\ WorldOK
    /\ hasLoop \in BOOLEAN
    /\ stagedDir \in {<<"out">>, src \o <<"out">>}
    /\ CopyWorldOK

\* main has not started
InitMain ==
    /\ pc = "start"
    /\ tags = <<>>
    /\ enforceMain = FALSE
    /\ vendorDir = NoPath
    /\ skippedPackages = InitSkippedPackages
    /\ pass = 1
    /\ imports = <<>>
    /\ visited = {}
    /\ packages = <<>>
    /\ visitedPackages = {}
    /\ deps = Nil
    /\ importCalls = <<>>
    /\ returned = {}
    /\ dstFS = {DirEntry(stagedDir)}
    /\ bundled = {}
    /\ ops = <<>>
    /\ stdout = <<>>
    /\ stderr = <<>>
    /\ err = "none"
    /\ exitCode = -1

\* no call of copyFile is being followed
InitNoCopyFile == cf = [pc |-> "none"] /\ cfIn = [pc |-> "none"]

\* no handler has been made
InitNoHandler == c = NilSlice /\ empty = FALSE /\ requests = <<>> /\ renders = 0

Init == InitWorld /\ InitMain /\ InitNoCopyFile /\ InitNoHandler

(***************************************************************************)
(* main                                                                    *)
(***************************************************************************)
Exit(code, why, line) ==
    /\ pc' = "exit"
    /\ exitCode' = code
    /\ err' = why
    /\ stderr' = IF line = <<>> THEN stderr ELSE Append(stderr, line)

\* flag.Parse and the argument count check
MainArgs ==
    /\ pc = "start"
    /\ \E narg \in 1..3 :
         IF narg # 2
         THEN Exit(1, "usage", <<"usage">>)
         ELSE /\ pc' = "config"
              /\ UNCHANGED <<exitCode, err, stderr>>
    /\ UNCHANGED <<others, world, mainVars, analyzeVars, pass, deps, returned, dstFS, bundled,
                   ops, stdout>>

\* read and parse SERVICE_YAML into c, then choose tags, enforceMain, vendorDir
\* (c is not read again)
MainConfig ==
    /\ pc = "config"
    /\ \/ /\ Exit(1, "read", <<"failed to read">>)
          /\ UNCHANGED mainVars
       \/ /\ Exit(1, "unmarshal", <<"failed to unmarshal YAML config">>)
          /\ UNCHANGED mainVars
       \/ \E conf \in Configs :
            /\ IF isFlex(conf)
               THEN /\ tags' = <<"appenginevm">>
                    /\ enforceMain' = TRUE
                    /\ vendorDir' = Join(<<"_gopath">>, <<"src">>)
                    /\ skippedPackages' = [skippedPackages EXCEPT !["appengine"] = FALSE]
               ELSE /\ tags' = <<"appengine">>
                    /\ enforceMain' = FALSE
                    /\ vendorDir' = NoPath
                    /\ UNCHANGED skippedPackages
            /\ pc' = "pass"
            /\ UNCHANGED <<exitCode, err, stderr>>
    /\ UNCHANGED <<others, world, analyzeVars, pass, deps, returned, dstFS, bundled, ops, stdout>>

\* analyze, up to the loop: ImportDir, the package main check, the seeding
AnalyzeStart ==
    /\ pc = "pass"
    /\ ops' = Append(ops, <<"analyze", minorVersions[pass]>>)
    /\ visited' = {}
    /\ packages' = <<>>
    /\ visitedPackages' = {}
    /\ importCalls' = <<>>
    /\ deps' = Nil
    /\ \/ /\ pc' = "analyzed"
          /\ err' = "importdir"
          /\ imports' = <<>>
       \/ LET pkg == ImportDir(buildCtx, src) IN
          IF mustBeMain(enforceMain, pkg)
          THEN /\ pc' = "analyzed"
               /\ err' = "notmain"
               /\ imports' = <<>>
          ELSE /\ pc' = "analyze"
               /\ err' = "none"
               /\ imports' = seed(pkg, src)
    /\ UNCHANGED <<others, world, mainVars, pass, returned, dstFS, bundled, stdout, stderr,
                   exitCode>>

\* one iteration of the loop of analyze
AnalyzeStep ==
    /\ pc = "analyze"
    /\ imports # <<>>
    /\ LET i == imports[1]
           rest == shift(imports)
           r == Import(buildCtx, i.path, i.fromDir)
       IN
       IF i \in visited \/ isSkipped(skippedPackages, i.path)
       THEN /\ imports' = rest
            /\ UNCHANGED <<visited, packages, visitedPackages, importCalls, pc, err, deps>>
       ELSE /\ visited' = markVisited(visited, i)
            /\ importCalls' = Append(importCalls, [edge |-> i, ok |-> r.ok, pkg |-> r.pkg])
            /\ IF ~r.ok
               THEN /\ pc' = "analyzed"
                    /\ err' = "import"
                    /\ deps' = Nil
                    /\ imports' = rest
                    /\ UNCHANGED <<packages, visitedPackages>>
               ELSE /\ packages' = appendPackage(packages, visitedPackages, r.pkg)
                    /\ visitedPackages' = visitedPackages \cup {pkgName(r.pkg)}
                    /\ imports' = enqueue(rest, r.pkg)
                    /\ UNCHANGED <<pc, err, deps>>
    /\ UNCHANGED <<others, world, mainVars, pass, returned, dstFS, bundled, ops, stdout, stderr,
                   exitCode>>

\* the loop of analyze is over: return packages, nil
AnalyzeReturn ==
    /\ pc = "analyze"
    /\ imports = <<>>
    /\ deps' = List(packages)
    /\ returned' = returned \cup Range(packages)
    /\ pc' = "analyzed"
    /\ UNCHANGED <<others, world, mainVars, analyzeVars, pass, dstFS, bundled, ops, stdout,
                   stderr, err, exitCode>>

\* faulty variant: main goes on to bundle whatever analyze returned
afterAnalyzeGoOn(e) == "bundle"

afterAnalyze(e) == IF e # "none" THEN "exit" ELSE "bundle"

\* main's check of the error analyze returned
MainCheckAnalyze ==
    /\ pc = "analyzed"
    /\ IF afterAnalyze(err) = "exit"
       THEN Exit(1, err, <<"failed analyzing", src>>)
       ELSE /\ pc' = "bundle"
            /\ UNCHANGED <<exitCode, err, stderr>>
    /\ UNCHANGED <<others, world, mainVars, analyzeVars, pass, deps, returned, dstFS, bundled,
                   ops, stdout>>

\* faulty variant: the loop over minorVersions ends after its first pass
afterBundleOnce(ok, n) == IF ~ok THEN "exit" ELSE "copy"

afterBundle(ok, n) ==
    IF ~ok THEN "exit" ELSE IF n < Len(minorVersions) THEN "pass" ELSE "copy"

\* bundle(src, dst, vendorDir, deps) and main's check of its error
Bundle ==
    /\ pc = "bundle"
    /\ ops' = Append(ops, <<"bundle", minorVersions[pass]>>)
    /\ \E bad \in BundleFailPoints(deps.list) :
       \E r \in {bundle(dstFS, stderr, stagedDir, vendorDir, deps.list, 1, bad)} :
         LET to == afterBundle(r.ok, pass)
         IN  /\ dstFS' = r.fs
             /\ bundled' = bundled \cup (r.fs \ dstFS)
             /\ pc' = to
             /\ IF to = "exit"
                THEN /\ stderr' = Append(r.log, <<"failed to bundle">>)
                     /\ err' = IF r.deep THEN "depth" ELSE "bundle"
                     /\ exitCode' = 1
                     /\ UNCHANGED pass
                ELSE /\ stderr' = r.log
                     /\ pass' = IF to = "pass" THEN pass + 1 ELSE pass
                     /\ UNCHANGED <<err, exitCode>>
    /\ UNCHANGED <<others, world, mainVars, analyzeVars, deps, returned, stdout>>

\* copyTree(dst, ".", src, true) and the end of main
CopyRoot ==
    /\ pc = "copy"
    /\ ops' = Append(ops, <<"copyTree">>)
    /\ \E bad \in CopyFailPoints :
       \E r \in {copyTree(dstFS, stderr, stagedDir, <<".">>, src, TRUE, bad, 1)} :
         /\ dstFS' = r.fs
         /\ pc' = "exit"
         /\ IF r.ok
            THEN /\ stderr' = r.log
                 /\ exitCode' = 0
                 /\ UNCHANGED err
            ELSE /\ stderr' = Append(r.log, <<"unable to copy root directory to /app">>)
                 /\ err' = IF r.deep THEN "depth" ELSE "copy"
                 /\ exitCode' = 1
    /\ UNCHANGED <<others, world, mainVars, analyzeVars, pass, deps, returned, bundled, stdout>>

Next ==
    \/ MainArgs
    \/ MainConfig
    \/ AnalyzeStart
    \/ AnalyzeStep
    \/ AnalyzeReturn
    \/ MainCheckAnalyze
    \/ Bundle
    \/ CopyRoot

Spec == Init /\ [][Next]_vars

\* analyze is sequential code: once in its loop, the process keeps executing it
FairSpec == Spec /\ WF_vars(AnalyzeStep) /\ WF_vars(AnalyzeReturn)

(***************************************************************************)
(* copyFile, followed statement by statement.  The call is made on an      *)
(* application without imports; its source, its destination and the call   *)
(* at which the operating system fails are chosen freely.                  *)
(***************************************************************************)
InitOneWorld ==
    /\ src = SrcRootDir \o <<"app">>
    /\ rootName = "main"
    /\ vendored = FALSE
    /\ edges = {}
    /\ hasLoop = FALSE
    /\ stagedDir = <<"out">>

\* the paths copyFile is called with: files, a file behind a link, a
\* directory, a path that does not exist
CopyFileSources ==
    {src \o <<"app.yaml">>, src \o <<"main.go">>, src \o <<"static", "index.html">>,
     src \o <<"assets", "index.html">>, DirA \o <<"a.go">>, DirB \o <<"b.go">>,
     src \o <<"static">>, src \o <<"gone">>}

\* the destinations, relative to dstRoot: in dstRoot, in a directory that is
\* not there, at the place of a directory
CopyFileDests == {<<"f">>, <<"sub", "f">>, <<"made">>}

CopyFileOps == {"none", "open", "create", "copy", "close"}

CopyFileInit ==
    /\ InitOneWorld
    /\ InitMain
    /\ InitNoHandler
    /\ \E s \in CopyFileSources, d \in CopyFileDests, op \in CopyFileOps :
         /\ cfIn = [fs |-> MkdirAll(dstFS, stagedDir \o <<"made">>), dst |-> d, src |-> s,
                    bad |-> IF op = "none" THEN NoFail ELSE Fail(s, op)]
         /\ cf = copyFileCall(cfIn.fs, stagedDir, d, s)

\* one statement of copyFile
CopyFileStatement(at) ==
    /\ cf.pc = at
    /\ cf' = copyFileStep(cf, cfIn.bad)
    /\ UNCHANGED <<cfIn, handlerVars, world, mainVars, analyzeVars, runVars>>

CopyFileOpen == CopyFileStatement("open")

CopyFileCreate == CopyFileStatement("create")

CopyFileCopy == CopyFileStatement("copy")

CopyFileClose == CopyFileStatement("close")

CopyFileDeferred == CopyFileStatement("deferred")

CopyFileNext ==
    \/ CopyFileOpen
    \/ CopyFileCreate
    \/ CopyFileCopy
    \/ CopyFileClose
    \/ CopyFileDeferred

CopyFileSpec == CopyFileInit /\ [][CopyFileNext]_vars

(***************************************************************************)
(* staticHandler.ServeHTTP, called by net/http in one goroutine per        *)
(* request.  Nothing orders the reads and the write of s.c, so the steps   *)
(* of the calls interleave freely, and the assignment s.c = b is the two   *)
(* stores of the pointer and of the length.                                *)
(***************************************************************************)
Requests == 1..NumRequests

\* the bytes the n-th render returns: b.Bytes() of a buffer nothing was
\* written to is nil
Bytes(n) == IF empty THEN NilSlice ELSE [ptr |-> n, len |-> 1]

ServeInit ==
    /\ InitOneWorld
    /\ InitMain
    /\ InitNoCopyFile
    /\ c = NilSlice
    /\ empty \in BOOLEAN
    /\ requests = [r \in Requests |-> [pc |-> "idle", b |-> NilSlice, out |-> NilSlice]]
    /\ renders = 0

\* what a call of ServeHTTP leaves alone
serveFrame == <<empty, copyFileVars, world, mainVars, analyzeVars, runVars>>

At(r, at) == requests[r].pc = at

Goto(r, at) == requests' = [requests EXCEPT ![r].pc = at]

\* net/http calls ServeHTTP for a request
ServeCall(r) ==
    /\ At(r, "idle")
    /\ Goto(r, "check")
    /\ UNCHANGED <<c, renders, serveFrame>>

\* if s.c == nil
ServeCheck(r) ==
    /\ At(r, "check")
    /\ Goto(r, IF c.ptr = 0 THEN "render" ELSE "write")
    /\ UNCHANGED <<c, renders, serveFrame>>

\* b, err := s.t.render(w, r, s.m), and the panic when err is not nil
ServeRender(r) ==
    /\ At(r, "render")
    /\ \/ /\ requests' = [requests EXCEPT ![r].pc = "store", ![r].b = Bytes(renders + 1)]
          /\ renders' = renders + 1
       \/ /\ Goto(r, "panicked")
          /\ UNCHANGED renders
    /\ UNCHANGED <<c, serveFrame>>

\* s.c = b: the pointer
ServeStorePtr(r) ==
    /\ At(r, "store")
    /\ c' = [c EXCEPT !.ptr = requests[r].b.ptr]
    /\ Goto(r, "storelen")
    /\ UNCHANGED <<renders, serveFrame>>

\* s.c = b: the length
ServeStoreLen(r) ==
    /\ At(r, "storelen")
    /\ c' = [c EXCEPT !.len = requests[r].b.len]
    /\ Goto(r, "write")
    /\ UNCHANGED <<renders, serveFrame>>

\* w.Write(s.c)
ServeWrite(r) ==
    /\ At(r, "write")
    /\ requests' = [requests EXCEPT ![r].pc = "done", ![r].out = c]
    /\ UNCHANGED <<c, renders, serveFrame>>

ServeNext ==
    \/ \E r \in Requests : ServeCall(r)
    \/ \E r \in Requests : ServeCheck(r)
    \/ \E r \in Requests : ServeRender(r)
    \/ \E r \in Requests : ServeStorePtr(r)
    \/ \E r \in Requests : ServeStoreLen(r)
    \/ \E r \in Requests : ServeWrite(r)

ServeSpec == ServeInit /\ [][ServeNext]_vars

(***************************************************************************)
(* Vocabulary of the properties                                            *)
(***************************************************************************)
Flex == tags = <<"appenginevm">>

Standard == tags = <<"appengine">>

\* the skip set in force: the names skippedPackages maps to true
SkipSet == {n \in DOMAIN skippedPackages : skippedPackages[n]}

\* the import statements in force under the context of the current pass
DiskPairs ==
    {importFrom(x[2], x[1]) : x \in {y \in edges : Active(y[1], y[2], buildCtx)}}

RootPairs == {e \in DiskPairs : e.fromDir = src}

\* resolving f brings the statement e into the traversal
Leads(f, e) ==
    /\ firstPart(f.path) \notin SkipSet
    /\ LET r == Import(buildCtx, f.path, f.fromDir) IN r.ok /\ r.pkg.Dir = e.fromDir

RECURSIVE Reachable(_, _)
Reachable(e, n) ==
    \/ e \in RootPairs
    \/ n > 0 /\ \E f \in DiskPairs : Leads(f, e) /\ Reachable(f, n - 1)

\* the (importPath, originDirectory) pairs reachable from the root package
ReachablePairs == {e \in DiskPairs : Reachable(e, Cardinality(edges))}

NonSkippedPairs == {e \in ReachablePairs : firstPart(e.path) \notin SkipSet}

AllResolve == \A e \in NonSkippedPairs : Import(buildCtx, e.path, e.fromDir).ok

NumWithDir(pkgs, dir) == Cardinality({k \in 1..Len(pkgs) : pkgs[k].Dir = dir})

\* a imports b, b imports a, and the application reaches them
CycleAB ==
    /\ <<DirA, PathB>> \in edges
    /\ <<DirB, PathA>> \in edges
    /\ \E e \in edges : e[1] \notin {DirA, DirB} /\ e[2] \in {PathA, PathB}

AnalyzeOK == pc = "analyzed" /\ err = "none"

(***************************************************************************)
(* C1: when every non-skipped import resolves, analyze terminates without  *)
(* error; when a imports b and b imports a, the list it returns holds a    *)
(* exactly once and b exactly once.                                        *)
(***************************************************************************)
C1_AnalyzeTerminates ==
    (pc = "analyze" /\ AllResolve)
      ~> (/\ AnalyzeOK
          /\ ~deps.nil
          /\ CycleAB => /\ NumWithDir(deps.list, DirA) = 1
                        /\ NumWithDir(deps.list, DirB) = 1)

C1_Witness ==
    /\ AnalyzeOK
    /\ CycleAB
    /\ NumWithDir(deps.list, DirA) = 1
    /\ NumWithDir(deps.list, DirB) = 1
    /\ Len(importCalls) >= 3

(***************************************************************************)
(* C2: no two packages of the list analyze builds and returns have the     *)
(* same SrcRoot/ImportPath directory; a package that two packages import   *)
(* is listed once.                                                         *)
(***************************************************************************)
Distinct(pkgs) ==
    \A i, j \in 1..Len(pkgs) : i # j => pkgName(pkgs[i]) # pkgName(pkgs[j])

C2_UniqueDirs == Distinct(packages) /\ Distinct(deps.list)

C2_Witness ==
    /\ AnalyzeOK
    /\ NumWithDir(deps.list, DirC) = 1
    /\ \E i, j \in 1..Len(importCalls) :
         /\ importCalls[i].edge = importFrom(PathC, DirA)
         /\ importCalls[j].edge = importFrom(PathC, DirB)
         /\ importCalls[i].pkg = importCalls[j].pkg

(***************************************************************************)
(* C3: in one run of analyze, ctx.Import is called at most once for each   *)
(* (importPath, originDirectory) pair, however often the pair is enqueued. *)
(***************************************************************************)
C3_ResolvedOnce ==
    \A i, j \in 1..Len(importCalls) :
        i # j => importCalls[i].edge # importCalls[j].edge

\* a pair that was resolved is at the head of the queue again
C3_Witness ==
    /\ pc = "analyze"
    /\ imports # <<>>
    /\ imports[1] \in visited
    /\ \E k \in 1..Len(importCalls) : importCalls[k].edge = imports[1]

(***************************************************************************)
(* C4 as claimed: when analyze succeeds, the number of ctx.Import calls is *)
(* the number of (importPath, originDirectory) pairs reachable from the    *)
(* root package.                                                           *)
(***************************************************************************)
C4_CallsEqualReachable == AnalyzeOK => Len(importCalls) = Cardinality(ReachablePairs)

(***************************************************************************)
(* C4 amended: when analyze succeeds, the number of ctx.Import calls is    *)
(* the number of reachable pairs whose first path segment is not in the    *)
(* skip set (a skipped pair is discarded without a call).                  *)
(***************************************************************************)
C4_CallsEqualNonSkipped == AnalyzeOK => Len(importCalls) = Cardinality(NonSkippedPairs)

C4_Witness ==
    /\ AnalyzeOK
    /\ ReachablePairs # NonSkippedPairs
    /\ Len(importCalls) >= 2
    /\ Len(importCalls) = Cardinality(NonSkippedPairs)

(***************************************************************************)
(* C5 as claimed: no package of the list has an ImportPath whose first     *)
(* segment is in the skip set.                                             *)
(***************************************************************************)
C5_NoSkippedImportPath ==
    \A k \in 1..Len(packages) : firstPart(packages[k].ImportPath) \notin SkipSet

(***************************************************************************)
(* C5 amended: every package of the list was resolved from an import       *)
(* whose path, as written in the import statement, has a first segment     *)
(* outside the skip set; its own ImportPath starts with a skipped name     *)
(* only when go/build resolved the import to another path (a vendored      *)
(* copy).                                                                  *)
(***************************************************************************)
C5_NoSkippedImport ==
    \A k \in 1..Len(packages) :
        /\ \E n \in 1..Len(importCalls) :
             /\ importCalls[n].ok
             /\ importCalls[n].pkg = packages[k]
             /\ firstPart(importCalls[n].edge.path) \notin SkipSet
        /\ \A n \in 1..Len(importCalls) :
             (importCalls[n].pkg = packages[k]
                /\ importCalls[n].edge.path = packages[k].ImportPath)
             => firstPart(packages[k].ImportPath) \notin SkipSet

\* a skipped import was met and discarded, other imports were listed
C5_Witness ==
    /\ AnalyzeOK
    /\ packages # <<>>
    /\ \E e \in ReachablePairs : firstPart(e.path) \in SkipSet
    /\ \A k \in 1..Len(packages) : firstPart(packages[k].ImportPath) \notin SkipSet

(***************************************************************************)
(* C6: with enforceMain set and a root package that is not package main,   *)
(* analyze returns an error and has made no ctx.Import call: the visited   *)
(* set and the package list are empty, nothing is returned.                *)
(***************************************************************************)
C6_NotMainResolvesNothing ==
    (enforceMain /\ rootName # "main" /\ ops # <<>> /\ err # "importdir")
    => /\ err = "notmain"
       /\ pc \in {"analyzed", "exit"}
       /\ importCalls = <<>>
       /\ visited = {}
       /\ packages = <<>>
       /\ deps.nil
       /\ pc = "exit" => exitCode = 1

C6_Witness ==
    /\ pc = "exit"
    /\ err = "notmain"
    /\ \E e \in edges : e[1] = src /\ firstPart(e[2]) \notin SkipSet

(***************************************************************************)
(* C7: the first error ends the run: a failed import resolution returns no *)
(* list and nothing is bundled in that pass; after a failed analyze or     *)
(* bundle no later pass runs, the root copy does not run, and the exit     *)
(* code is 1.                                                              *)
(***************************************************************************)
Failed == err \in {"importdir", "notmain", "import", "bundle"}

C7_FirstErrorAborts ==
    /\ err = "import" => deps.nil /\ <<"bundle", minorVersions[pass]>> \notin Range(ops)
    /\ Failed =>
         /\ pc \in {"analyzed", "exit"}
         /\ <<"copyTree">> \notin Range(ops)
         /\ \A k \in (pass + 1)..Len(minorVersions) :
              /\ <<"analyze", minorVersions[k]>> \notin Range(ops)
              /\ <<"bundle", minorVersions[k]>> \notin Range(ops)
         /\ pc = "exit" => exitCode = 1

\* the import of the third pass fails after two passes were bundled
C7_Witness ==
    /\ pc = "exit"
    /\ err = "import"
    /\ pass < Len(minorVersions) + 1
    /\ pass > 1
    /\ bundled # {}

(***************************************************************************)
(* C8: a run that ends with exit code 0 has written the absolute path of   *)
(* the staged SERVICE_YAML to standard output.                             *)
(***************************************************************************)
stagedManifest == Join(stagedDir, <<"app.yaml">>)

C8_StdoutHasStagedManifest ==
    (pc = "exit" /\ exitCode = 0) => stagedManifest \in Range(stdout)

(***************************************************************************)
(* C9 as claimed: in Standard mode bundle writes nothing into the output   *)
(* directory in any pass.                                                  *)
(***************************************************************************)
C9_StandardBundlesNothing == Standard => bundled = {}

(***************************************************************************)
(* C9 amended: in Standard mode the vendor directory is empty, so bundle   *)
(* writes each package analyze returned at <output>/<ImportPath>: the      *)
(* directories it creates lead to such a directory, the files it writes    *)
(* lie directly in one, nothing is written under <output>/_gopath, and     *)
(* bundle writes nothing when analyze returned no package.                 *)
(***************************************************************************)
C9_StandardBundlesAtImportPath ==
    Standard =>
      /\ \A e \in bundled :
           /\ ~IsPrefix(stagedDir \o <<"_gopath">>, e.path)
           /\ \E pkg \in returned :
                IF e.kind = "dir"
                THEN IsPrefix(e.path, stagedDir \o pkg.ImportPath)
                ELSE Front(e.path) = stagedDir \o pkg.ImportPath
      /\ (pc \in {"pass", "copy"} \/ (pc = "exit" /\ exitCode = 0)) =>
           \A pkg \in returned : KindIn(dstFS, stagedDir \o pkg.ImportPath) = "dir"

C9_Witness ==
    /\ Standard
    /\ pc = "exit"
    /\ exitCode = 0
    /\ \E e \in bundled : e.kind = "file"
    /\ \E pkg \in returned : KindIn(dstFS, stagedDir \o pkg.ImportPath) = "dir"

(***************************************************************************)
(* C10: in Flexible mode with a package main root, after a successful run  *)
(* the output holds a directory <vendorDir>/<ImportPath> for every package *)
(* analyze returned in any pass.                                           *)
(***************************************************************************)
C10_FlexVendorsEveryPackage ==
    (Flex /\ pc = "exit" /\ exitCode = 0) =>
      /\ vendorDir = <<"_gopath", "src">>
      /\ \A pkg \in returned :
           KindIn(dstFS, stagedDir \o vendorDir \o pkg.ImportPath) = "dir"

C10_Witness ==
    /\ Flex
    /\ rootName = "main"
    /\ pc = "exit"
    /\ exitCode = 0
    /\ Cardinality(returned) >= 2
    /\ \A pkg \in returned :
         KindIn(dstFS, stagedDir \o <<"_gopath", "src">> \o pkg.ImportPath) = "dir"

(***************************************************************************)
(* Vocabulary of the copy properties                                       *)
(***************************************************************************)
\* main has called copyTree(dst, ".", src, true) and the call has returned
RootCopied == ops # <<>> /\ ops[Len(ops)] = <<"copyTree">>

Succeeded == pc = "exit" /\ exitCode = 0

\* what the root copy (recursive = true) has written
rootCopy == (dstFS \ bundled) \ {DirEntry(stagedDir)}

\* the segments of a staged path below the output directory
Below(p) == {p[k] : k \in (Len(stagedDir) + 1)..Len(p)}

Logged(line) == \E k \in 1..Len(stderr) : stderr[k] = line

\* the symbolic links of the application directory that lead to a directory
LinkDirs == {l \in AppLinksRel : Present(l[1]) /\ IsSrcDir(src \o l[2])}

\* the files below the directory t of the application, relative to t
Leaves(t) ==
    {SubSeq(g, Len(t) + 1, Len(g)) : g \in {f \in AppFilesRel : IsPrefix(t, f) /\ Present(f)}}

Kept(r) == \A k \in 1..Len(r) : r[k] \notin skipFiles

FileFrom(p, from) == [path |-> p, kind |-> "file", from |-> from]

(***************************************************************************)
(* C11: whatever the source tree, nothing the recursive copy of the        *)
(* application directory creates in the output has a basename in           *)
(* skipFiles, at any depth.                                                *)
(***************************************************************************)
C11_NoSkipFileStaged == \A e \in rootCopy : Below(e.path) \cap skipFiles = {}

C11_Witness ==
    /\ Succeeded
    /\ RootCopied
    /\ Logged(<<"skipping", src \o <<".git">>>>)
    /\ Logged(<<"skipping", src \o <<"static", ".gitconfig">>>>)
    /\ FileFrom(stagedDir \o <<"static", "index.html">>, src \o <<"static", "index.html">>)
         \in rootCopy

(***************************************************************************)
(* C12 as stated: after a successful run every symbolic link to a          *)
(* directory is staged as a directory that holds every file of the link's  *)
(* target.                                                                 *)
(***************************************************************************)
C12_LinkHoldsEveryLeaf ==
    Succeeded =>
      \A l \in LinkDirs :
        /\ KindIn(dstFS, stagedDir \o l[1]) = "dir"
        /\ \A r \in Leaves(l[2]) :
             FileFrom(stagedDir \o l[1] \o r, src \o l[2] \o r) \in dstFS

(***************************************************************************)
(* C12 amended: after a successful run every symbolic link to a directory  *)
(* is staged as a directory whose files are exactly the files of the       *)
(* link's target that have no name of skipFiles on their path; an entry of *)
(* the output is a directory or a regular file, never a link.              *)
(***************************************************************************)
C12_LinkHoldsKeptLeaves ==
    /\ \A e \in dstFS : e.kind \in {"dir", "file"}
    /\ Succeeded =>
         \A l \in LinkDirs :
           /\ KindIn(dstFS, stagedDir \o l[1]) = "dir"
           /\ \A r \in Leaves(l[2]) :
                Kept(r) <=> FileFrom(stagedDir \o l[1] \o r, src \o l[2] \o r) \in dstFS
           /\ \A e \in dstFS :
                (e.kind = "file" /\ IsPrefix(stagedDir \o l[1], e.path)) =>
                  SubSeq(e.path, Len(stagedDir) + Len(l[1]) + 1, Len(e.path)) \in Leaves(l[2])

C12_Witness ==
    /\ Succeeded
    /\ LinkDirs # {}
    /\ KindIn(dstFS, stagedDir \o <<"assets">>) = "dir"
    /\ FileFrom(stagedDir \o <<"assets", "index.html">>, src \o <<"static", "index.html">>)
         \in dstFS
    /\ KindIn(dstFS, stagedDir \o <<"assets", ".gitconfig">>) = "none"

RECURSIVE PassCalls(_)
PassCalls(k) ==
    IF k = 0 THEN <<>>
    ELSE PassCalls(k - 1) \o <<<<"analyze", minorVersions[k]>>, <<"bundle", minorVersions[k]>>>>

AllCalls == PassCalls(Len(minorVersions)) \o <<<<"copyTree">>>>

C14_PassesThenOneRootCopy ==
    /\ \A i, j \in 1..Len(minorVersions) : i < j => minorVersions[i] < minorVersions[j]
    /\ IsPrefix(ops, AllCalls)
    /\ Succeeded => ops = AllCalls

C14_Witness == Succeeded /\ ops = AllCalls /\ Len(ops) = 2 * Len(minorVersions) + 1

(***************************************************************************)
(* Vocabulary of the bundle properties                                     *)
(***************************************************************************)
\* bundle has returned nil in the current pass
Bundled == pc \in {"pass", "copy"} \/ Succeeded

pkgSrcDir(pkg) == Join(pkg.SrcRoot, pkg.ImportPath)

pkgDstDir(pkg) == stagedDir \o vendorDir \o pkg.ImportPath

\* the directories on disk below dir that have no name of skipFiles
SubDirsOf(dir) ==
    {d \in PkgTreeDirs \cup {src \o r : r \in {x \in AppDirsRel : Present(x)}} :
       IsPrefix(dir, d) /\ d # dir /\ Kept(SubSeq(d, Len(dir) + 1, Len(d)))}

\* the files on disk directly in dir that have no name of skipFiles
FilesIn(dir) ==
    {f \in PkgTreeFiles \cup {src \o r : r \in {x \in AppFilesRel : Present(x)}} :
       Front(f) = dir /\ f[Len(f)] \notin skipFiles}

(***************************************************************************)
(* C15 as stated: once bundle has returned, every subdirectory of the      *)
(* directory of every package analyze returned is present under the        *)
(* package's vendored destination.                                         *)
(***************************************************************************)
C15_BundleCopiesSubdirs ==
    Bundled =>
      \A pkg \in returned : \A d \in SubDirsOf(pkgSrcDir(pkg)) :
        KindIn(dstFS, pkgDstDir(pkg) \o SubSeq(d, Len(pkgSrcDir(pkg)) + 1, Len(d))) = "dir"

(***************************************************************************)
(* C15 amended: bundle copies the files directly in each package           *)
(* directory and nothing below: every file it writes lies directly in the  *)
(* destination of a package and comes from directly inside that package's  *)
(* directory, and once it has returned every such file is there.           *)
(***************************************************************************)
C15_BundleCopiesTopFilesOnly ==
    /\ \A e \in bundled :
         e.kind = "file" =>
           \E pkg \in returned :
             Front(e.path) = pkgDstDir(pkg) /\ Front(e.from) = pkgSrcDir(pkg)
    /\ Bundled =>
         \A pkg \in returned : \A f \in FilesIn(pkgSrcDir(pkg)) :
           FileFrom(pkgDstDir(pkg) \o <<f[Len(f)]>>, f) \in bundled

C15_Witness ==
    /\ Bundled
    /\ \E pkg \in returned :
         /\ pkg.Dir = DirA
         /\ FileFrom(pkgDstDir(pkg) \o <<"a.go">>, DirA \o <<"a.go">>) \in bundled
         /\ SubDirsOf(pkgSrcDir(pkg)) = {DirA \o <<"internal">>}
         /\ KindIn(dstFS, pkgDstDir(pkg) \o <<"internal">>) = "none"

(***************************************************************************)
(* Vocabulary of the order property                                        *)
(***************************************************************************)
\* the package directory dir is at most n import statements away from the
\* application directory, along statements that are resolved
RECURSIVE Within(_, _)
Within(dir, n) ==
    \/ dir = src
    \/ n > 0 /\ \E e \in DiskPairs :
                  /\ firstPart(e.path) \notin SkipSet
                  /\ LET r == Import(buildCtx, e.path, e.fromDir) IN r.ok /\ r.pkg.Dir = dir
                  /\ Within(e.fromDir, n - 1)

\* the shortest import distance of dir from the root package
Dist(dir) ==
    LET N == Cardinality(edges)
        ns == {n \in 0..N : Within(dir, n)}
    IN  IF ns = {} THEN N + 1 ELSE CHOOSE n \in ns : \A m \in ns : n <= m

\* the index in importCalls of the first call that resolved to dir
FirstCall(dir) ==
    LET ks == {k \in 1..Len(importCalls) : importCalls[k].ok /\ importCalls[k].pkg.Dir = dir}
    IN  IF ks = {} THEN 0 ELSE CHOOSE k \in ks : \A m \in ks : k <= m

(***************************************************************************)
(* C16: the list analyze returns is in breadth-first discovery order: the  *)
(* shortest import distances of its packages from the root never decrease  *)
(* along the list, and the packages stand in the order in which a call of  *)
(* ctx.Import first resolved to them.                                      *)
(***************************************************************************)
C16_BreadthFirstOrder ==
    AnalyzeOK =>
      \A i, j \in 1..Len(deps.list) :
        i < j =>
          /\ Dist(deps.list[i].Dir) <= Dist(deps.list[j].Dir)
          /\ Dist(deps.list[i].Dir) >= 1
          /\ FirstCall(deps.list[i].Dir) >= 1
          /\ FirstCall(deps.list[i].Dir) < FirstCall(deps.list[j].Dir)

C16_Witness ==
    /\ AnalyzeOK
    /\ Len(deps.list) >= 3
    /\ Dist(deps.list[1].Dir) = 1
    /\ Dist(deps.list[2].Dir) = 1
    /\ Dist(deps.list[Len(deps.list)].Dir) = 2

(***************************************************************************)
(* C17: once main has read the configuration, the names in force in the    *)
(* skip set are all the initial names in Standard mode and all but         *)
(* "appengine" in Flexible mode, in every pass; no import whose first      *)
(* segment is in force is resolved; and in Flexible mode an import of the  *)
(* root package under "appengine" is resolved and, when it resolves, is    *)
(* in the list analyze returns.                                            *)
(***************************************************************************)
InForce == SkipNames \ (IF Flex THEN {"appengine"} ELSE {})

C17_AppengineSkippedUnlessFlex ==
    /\ (Flex \/ Standard) => SkipSet = InForce
    /\ \A k \in 1..Len(importCalls) : firstPart(importCalls[k].edge.path) \notin InForce
    /\ (Flex /\ AnalyzeOK) =>
         \A e \in RootPairs :
           firstPart(e.path) = "appengine" =>
             \E k \in 1..Len(importCalls) :
               /\ importCalls[k].edge = e
               /\ importCalls[k].ok
               /\ \E i \in 1..Len(deps.list) : deps.list[i].Dir = importCalls[k].pkg.Dir

C17_Witness ==
    /\ Flex
    /\ AnalyzeOK
    /\ pass = 3
    /\ importFrom(PathAE, src) \in RootPairs
    /\ importFrom(PathNH, DirC) \in ReachablePairs
    /\ \E i \in 1..Len(deps.list) : deps.list[i].Dir = DirAE
    /\ \A k \in 1..Len(importCalls) : firstPart(importCalls[k].edge.path) # "net"

(***************************************************************************)
(* C18: when copyFile returns, on whichever path (os.Open failed,          *)
(* os.Create failed, io.Copy failed, Close failed, success), it holds no   *)
(* file handle it opened.                                                  *)
(***************************************************************************)
C18_HandlesClosedOnReturn == cf.pc = "return" => cf.open = {}

C18_Witness ==
    /\ cf.pc = "return"
    /\ cf.err = "copy"
    /\ cf.opened = {"s", "d"}
    /\ cf.open = {}

\* copyFile as one call is copyFile statement by statement
copyFileAgrees ==
    cf.pc = "return" =>
      copyFile(cfIn.fs, stagedDir, cfIn.dst, cfIn.src, cfIn.bad)
        = [ok |-> cf.err = "none", fs |-> cf.fs]

(***************************************************************************)
(* C19 as stated: over any interleaving of ServeHTTP calls on one          *)
(* staticHandler the template is rendered at most once, and every request  *)
(* that has been answered was answered with the bytes of that render.      *)
(***************************************************************************)
C19_RenderedOnceServedSame ==
    /\ renders <= 1
    /\ \A r \in DOMAIN requests :
         requests[r].pc = "done" => requests[r].out = [ptr |-> 1, len |-> 1]

====
